---- MODULE Spec2Model ----
(***************************************************************************)
(* Companies House API wrapper (CompaniesHouseService.py) and the batch    *)
(* script that drives it (CompaniesHouseRead.py).                          *)
(*                                                                         *)
(* Python values are modelled as follows.                                  *)
(*   - a dict is a function; a key is present iff it is in its DOMAIN;     *)
(*     the empty dict {} is the empty function <<>>;                       *)
(*   - a list is a sequence;                                               *)
(*   - a str is a sequence of tokens (pieces of text), so that "+" is      *)
(*     \o and "" is <<>>; a text that is sliced is a sequence of           *)
(*     one-character tokens;                                               *)
(*   - time is counted in ticks of 0.1 second.                             *)
(***************************************************************************)
EXTENDS Integers, Sequences, FiniteSets, TLC

VARIABLES
    \* ---- CompaniesHouseService instance
    last_request_timestamp, \* self.last_request_timestamp (None or a time)
    \* ---- environment
    clock,                  \* what datetime.datetime.now() returns
    \* ---- observation of the client
    prev_sent,              \* when the request before the last one was sent
    last_sent,              \* when the last request was sent
    last_wait,              \* <<elapsed, slept>> of the last _rate_limiting
    result,                 \* outcome of the last client operation
    \* ---- CompaniesHouseRead script
    getOfficers, getCharges, getInsolvency, \* the three flags
    input,                  \* the "Company Number" column as loaded
    df,                     \* the DataFrame: a sequence of rows
    index,                  \* the row the loop is at (1-based)
    pc,                     \* "loop", "done" (loop ended) or "aborted" (raised)
    calls,                  \* per row, the client requests its processing sent
    answered                \* per row, what get_company_profile returned

clientVars == <<last_request_timestamp, clock, prev_sent, last_sent, last_wait>>
batchVars ==
    <<getOfficers, getCharges, getInsolvency, input, df, index, pc, calls, answered>>
vars == <<last_request_timestamp, clock, prev_sent, last_sent, last_wait, result,
          getOfficers, getCharges, getInsolvency, input, df, index, pc, calls,
          answered>>

(***************************************************************************)
(* Bounds of the model.                                                    *)
(***************************************************************************)
MaxClock == 14      \* no client call starts after this time
MaxOversleep == 1   \* time.sleep may return this much late
MaxCharges == 3     \* longest charges page drawn for get_company_charges
MaxRows == 2        \* longest input table

(***************************************************************************)
(* Program constants.                                                      *)
(***************************************************************************)
None == -1                      \* self.last_request_timestamp = None
time_between_requests == 6      \* 0.6 s, the constructor's default
columns == 6                    \* fields of one unsatisfied charge
ParticularsLimit == 100         \* description[0:100]

Max(a, b) == IF a >= b THEN a ELSE b
Min(a, b) == IF a <= b THEN a ELSE b

T(s) == <<s>>                   \* the str made of one piece of text
EmptyDict == <<>>
NoneResult == T("None")         \* the value None a function returns
Return(v) == [kind |-> "return", value |-> v]
Raise(e) == [kind |-> "raise", value |-> e]

(***************************************************************************)
(* CompaniesHouseService._rate_limiting.  `now` is the clock on entry,     *)
(* `oversleep` the time by which the clock read after time.sleep exceeds   *)
(* the requested wake-up time.  Yields the new timestamp, the clock on     *)
(* return and the time slept.                                              *)
(***************************************************************************)
\* The rate limiter with the timestamp taken before the sleep instead of after.
RateLimitingStale(last, now, oversleep) ==
    IF last = None
    THEN [last |-> now, clock |-> now, elapsed |-> 0, wait |-> 0]
    ELSE LET current_time == now
             time_since_request == current_time - last
             wait_time == Max(time_between_requests - time_since_request, 0)
         IN  [last |-> current_time,
              clock |-> current_time + wait_time + oversleep,
              elapsed |-> time_since_request, wait |-> wait_time]

RateLimiting(last, now, oversleep) ==
    IF last = None
    THEN [last |-> now, clock |-> now, elapsed |-> 0, wait |-> 0]
    ELSE LET current_time == now
             time_since_request == current_time - last
             wait_time == Max(time_between_requests - time_since_request, 0)
         IN  [last |-> current_time + wait_time + oversleep,
              clock |-> current_time + wait_time + oversleep,
              elapsed |-> time_since_request, wait |-> wait_time]

(***************************************************************************)
(* CompaniesHouseService._query_ch_api: the rate limiter runs, then the    *)
(* request is sent (at the time _rate_limiting returned).  This is the     *)
(* state change; QueryResult is the value returned.                        *)
(***************************************************************************)
Client ==
    [ last |-> last_request_timestamp, clock |-> clock,
      prev_sent |-> prev_sent, last_sent |-> last_sent, last_wait |-> last_wait ]

QueryChApi(c, oversleep) ==
    LET r == RateLimiting(c.last, c.clock, oversleep)
    IN  [ last |-> r.last, clock |-> r.clock,
          prev_sent |-> c.last_sent, last_sent |-> r.clock,
          last_wait |-> <<r.elapsed, r.wait>> ]

\* n requests one after the other, no time passing but in time.sleep.
RECURSIVE QueryTimes(_, _)
QueryTimes(c, n) ==
    IF n = 0 THEN c ELSE QueryTimes(QueryChApi(c, 0), n - 1)

SetClient(c) ==
    /\ last_request_timestamp' = c.last
    /\ clock' = c.clock
    /\ prev_sent' = c.prev_sent
    /\ last_sent' = c.last_sent
    /\ last_wait' = c.last_wait

QueryResult(resp) ==
    IF resp.status_code = 200 THEN resp.body ELSE EmptyDict

(***************************************************************************)
(* get_first_company_search: search_result["items"][0], an IndexError      *)
(* giving None; a missing "items" key is a KeyError, which is not caught.  *)
(***************************************************************************)
get_first_company_search(resp) ==
    LET search_result == QueryResult(resp)
    IN  IF "items" \notin DOMAIN search_result THEN Raise("KeyError")
        ELSE IF Len(search_result["items"]) = 0 THEN Return(NoneResult)
        ELSE Return(search_result["items"][1])

get_company_profile(resp) == Return(QueryResult(resp))

(***************************************************************************)
(* get_company_directors: the names of the officers whose officer_role is  *)
(* 'director', in order.                                                   *)
(***************************************************************************)
RECURSIVE DirectorsLoop(_, _)
DirectorsLoop(officer_list, directors) ==
    IF officer_list = <<>> THEN directors
    ELSE LET officer == Head(officer_list)
         IN  DirectorsLoop(Tail(officer_list),
                 IF officer["officer_role"] = "director"
                 THEN Append(directors, officer["name"])
                 ELSE directors)

get_company_directors(resp) ==
    LET officers == QueryResult(resp)
    IN  IF "items" \notin DOMAIN officers THEN Raise("KeyError")
        ELSE Return(DirectorsLoop(officers["items"], <<>>))

(***************************************************************************)
(* get_company_charges: one row of six fields per charge whose status is   *)
(* not 'fully-satisfied'.  The first loop counts them, the second fills    *)
(* the pre-allocated rows and stops once the last one is filled.           *)
(***************************************************************************)
\* The count taken over every charge of the page, satisfied or not.
CountAllCharges(charges_list) == Len(charges_list)

RECURSIVE CountUnsatisfied(_)
CountUnsatisfied(charges_list) ==
    IF charges_list = <<>> THEN 0
    ELSE (IF Head(charges_list)["status"] /= "fully-satisfied" THEN 1 ELSE 0)
         + CountUnsatisfied(Tail(charges_list))

Slice(text, n) == SubSeq(text, 1, Min(Len(text), n))

ChargeRow(charge) ==
    << T("Description: ") \o charge["classification"]["description"],
       T("Created: ") \o charge["created_on"],
       T("Delivered: ") \o charge["delivered_on"],
       T("Status: ") \o T(charge["status"]),
       T("Persons entitled: ") \o charge["persons_entitled"][1]["name"],
       IF "description" \in DOMAIN charge["particulars"]
       THEN T("Short particulars: ")
            \o Slice(charge["particulars"]["description"], ParticularsLimit)
            \o T("...")
       ELSE T("[No Result]") >>

RECURSIVE FillCharges(_, _, _, _)
FillCharges(charges_list, unsatisfiedCharges, idx, requiredLength) ==
    IF charges_list = <<>> THEN unsatisfiedCharges
    ELSE LET charge == Head(charges_list)
         IN  IF charge["status"] /= "fully-satisfied"
             THEN LET filled == [unsatisfiedCharges EXCEPT ![idx + 1] = ChargeRow(charge)]
                  IN  IF idx + 1 = requiredLength THEN filled
                      ELSE FillCharges(Tail(charges_list), filled, idx + 1, requiredLength)
             ELSE FillCharges(Tail(charges_list), unsatisfiedCharges, idx, requiredLength)

get_company_charges(resp) ==
    LET charges == QueryResult(resp)
    IN  IF "items" \notin DOMAIN charges THEN Raise("KeyError")
        ELSE LET charges_list == charges["items"]
                 requiredLength == CountUnsatisfied(charges_list)
                 rows == requiredLength
                 unsatisfiedCharges == [y \in 1..rows |-> [x \in 1..columns |-> <<>>]]
             IN  Return(FillCharges(charges_list, unsatisfiedCharges, 0, requiredLength))

(***************************************************************************)
(* Registry responses.  A response is a status code and a decoded body.    *)
(***************************************************************************)
Ok(body) == [status_code |-> 200, body |-> body]
NotFound == [status_code |-> 404, body |-> [errors |-> T("not-found")]]

Text(n) == [i \in 1..n |-> "x"]     \* a text of n characters

Statuses == {"fully-satisfied", "outstanding", "part-satisfied"}

ParticularsSamples ==
    { [contains_fixed_charge |-> TRUE],
      [description |-> Text(3)],
      [description |-> Text(ParticularsLimit + 1)] }

Charge(status, particulars) ==
    [ classification |-> [description |-> T("A registered charge")],
      created_on |-> T("2015-03-01"),
      delivered_on |-> T("2015-03-09"),
      status |-> status,
      persons_entitled |-> << [name |-> T("Barclays Bank PLC")],
                              [name |-> T("Second Lender Ltd")] >>,
      particulars |-> particulars ]

ChargeSamples == { Charge(st, p) : st \in Statuses, p \in ParticularsSamples }

SeqsUpTo(S, n) == UNION { [1..k -> S] : k \in 0..n }

\* Every charges page of at most MaxCharges charges, a failed request, and
\* a page without an "items" array.
ChargesPages ==
    { Ok([items |-> l]) : l \in SeqsUpTo(ChargeSamples, MaxCharges) }
    \cup { NotFound, Ok([total_count |-> 0]) }

ExampleCharges ==
    << Charge("fully-satisfied", [description |-> Text(3)]),
       Charge("outstanding", [description |-> Text(3)]),
       Charge("part-satisfied", [contains_fixed_charge |-> TRUE]) >>

ChargesPagesSmall ==
    { NotFound, Ok([total_count |-> 0]), Ok([items |-> <<>>]),
      Ok([items |-> ExampleCharges]) }

Officer(name, role) == [name |-> T(name), officer_role |-> role]

ExampleOfficers ==
    << Officer("SMITH, John", "director"),
       Officer("DOE, Jane", "secretary"),
       Officer("ROE, Richard", "director") >>

OfficersPages ==
    { NotFound, Ok([total_results |-> 0]), Ok([items |-> <<>>]),
      Ok([items |-> ExampleOfficers]) }

SearchPages ==
    { NotFound, Ok([total_results |-> 0]), Ok([items |-> <<>>]),
      Ok([items |-> << [company_number |-> T("00445790"), title |-> T("TESCO PLC")],
                       [company_number |-> T("00519500"), title |-> T("TESCO STORES LIMITED")] >>]) }

(***************************************************************************)
(* Company profiles.  company_name, jurisdiction, type,                    *)
(* registered_office_address and links are always present; the address    *)
(* components, the entries of links and has_insolvency_history vary.       *)
(***************************************************************************)
NaN == T("<NaN>")                   \* an empty cell of the DataFrame
Identifiers == { T("00445790"), T("000") }

AddressValue(k) ==
    CASE k = "address_line_1" -> T("1 Main St")
      [] k = "address_line_2" -> T("Floor 2")
      [] k = "locality" -> T("London")
      [] k = "region" -> T("Greater London")
      [] k = "postal_code" -> T("N1 9GU")
      [] k = "country" -> T("England")

AddressKeys ==
    {"address_line_1", "address_line_2", "locality", "region", "postal_code", "country"}
LinkKeys == {"officers", "charges", "involvency"}

\* A JSON boolean and a JSON string, as has_insolvency_history may hold.
InsolvencyValues ==
    { EmptyDict,
      [has_insolvency_history |-> [type |-> "bool", text |-> T("True")]],
      [has_insolvency_history |-> [type |-> "str", text |-> T("yes")]] }

Profile(company_number, address, links, insolvency) ==
    [ company_number |-> company_number,
      company_name |-> IF company_number = T("00445790") THEN T("TESCO PLC")
                       ELSE T("ACME WIDGETS LTD"),
      jurisdiction |-> T("england-wales"),
      type |-> IF company_number = T("00445790") THEN T("plc") ELSE T("ltd"),
      registered_office_address |-> [k \in address |-> AddressValue(k)],
      links |-> [k \in links \cup {"self"} |->
                    T("/company/") \o company_number \o T("/") \o T(k)] ]
    @@ insolvency

AddressSamples ==
    { {"address_line_1", "locality"}, {"locality", "postal_code"}, AddressKeys }

\* The profiles the registry answers with in the runs over whole tables:
\* each of the address samples and each set of the links the registry has
\* ('officers', 'charges'), the other being held at one value.
ProfileSamples(company_number) ==
    { Profile(company_number, a, {"officers", "charges"},
              [has_insolvency_history |-> [type |-> "bool", text |-> T("True")]]) :
          a \in AddressSamples }
    \cup { Profile(company_number, {"address_line_1", "locality"}, l,
                   [has_insolvency_history |-> [type |-> "bool", text |-> T("True")]]) :
          l \in SUBSET {"officers", "charges"} }

ProfilePagesSmall ==
    { NotFound,
      Ok(Profile(T("00445790"), {"address_line_1", "locality"}, {"officers", "charges"},
                 EmptyDict)) }

ProfilePages(company_number) ==
    { NotFound } \cup { Ok(p) : p \in ProfileSamples(company_number) }

(***************************************************************************)
(* Python's str(), str.title(), str.upper() and str.strip() on the values  *)
(* met here.                                                               *)
(***************************************************************************)
Str(v) == IF v = NaN THEN T("nan") ELSE v

IntStr(n) == T(<<"0", "1", "2", "3", "4", "5", "6", "7", "8", "9">>[n + 1])

TitleToken(t) ==
    CASE t = "england-wales" -> "England-Wales"
      [] t = "scotland" -> "Scotland"
      [] OTHER -> t
Title(text) == [i \in DOMAIN text |-> TitleToken(text[i])]

UpperToken(t) ==
    CASE t = "plc" -> "PLC"
      [] t = "ltd" -> "LTD"
      [] OTHER -> t
Upper(text) == [i \in DOMAIN text |-> UpperToken(text[i])]

Whitespace == {"\n", " "}
RECURSIVE StripLeft(_)
StripLeft(text) ==
    IF text /= <<>> /\ Head(text) \in Whitespace THEN StripLeft(Tail(text)) ELSE text
RECURSIVE StripRight(_)
StripRight(text) ==
    IF text /= <<>> /\ text[Len(text)] \in Whitespace
    THEN StripRight(SubSeq(text, 1, Len(text) - 1)) ELSE text
Strip(text) == StripRight(StripLeft(text))

(***************************************************************************)
(* The DataFrame.  A row has every column; a cell never written is NaN.    *)
(* df.at[index, col] = v writes one cell of an existing row.               *)
(***************************************************************************)
Columns ==
    {"Company Number", "Company Name", "Jurisdiction", "Type",
     "Registered Office Address", "Directors", "Charges", "Insolvency"}

LoadedRow(company_number) ==
    [c \in Columns |-> IF c = "Company Number" THEN company_number ELSE NaN]

\* df.at with the label of the next row: pandas enlarges the frame when the
\* label does not exist.
AtNextLabel(d, i, col, v) ==
    IF i + 1 <= Len(d) THEN [d EXCEPT ![i + 1][col] = v]
    ELSE Append(d, [c \in Columns |-> IF c = col THEN v ELSE NaN])

At(d, i, col, v) == [d EXCEPT ![i][col] = v]

\* What one iteration of the loop leaves: the frame, the requests it sent,
\* and the exception that left the loop ("" when none did).
Outcome(d, sent, raised) == [df |-> d, calls |-> sent, raised |-> raised]

Request(url, query) == [url |-> url, query |-> query]
PageQuery(path) == path \o T("?items_per_page=200?start_index=0")

(***************************************************************************)
(* Lines 144-155: the insolvency flag.                                     *)
(***************************************************************************)
InsolvencyStep(d, i, company_profile, sent) ==
    IF getInsolvency
    THEN IF "involvency" \notin DOMAIN company_profile["links"]
         THEN Outcome(At(d, i, "Insolvency", T("[No Insolvency Data]")), sent, "")
         ELSE IF "has_insolvency_history" \notin DOMAIN company_profile
              THEN Outcome(d, sent, "KeyError")
              ELSE IF company_profile["has_insolvency_history"]["type"] /= "str"
                   THEN Outcome(d, sent, "TypeError")
                   ELSE Outcome(d, sent, "")
    ELSE Outcome(d, sent, "")

(***************************************************************************)
(* Lines 110-141: the charges, rendered as numbered blocks.                *)
(***************************************************************************)
RECURSIVE FieldsLoop(_, _, _)
FieldsLoop(charge, fieldIndex, width) ==
    IF fieldIndex < width
    THEN charge[fieldIndex + 1] \o T("\n") \o FieldsLoop(charge, fieldIndex + 1, width)
    ELSE <<>>

RECURSIVE ChargesLoop(_, _)
ChargesLoop(charges, chargeIndex) ==
    IF chargeIndex < Len(charges) + 1
    THEN IntStr(chargeIndex) \o T(":\n")
         \o FieldsLoop(charges[chargeIndex], 0, Len(charges[1]))
         \o T("\n")
         \o ChargesLoop(charges, chargeIndex + 1)
    ELSE <<>>

ChargesString(charges) == Strip(ChargesLoop(charges, 1))

ChargesStep(d, i, company_profile, chargesResp, sent) ==
    IF getCharges
    THEN IF "charges" \notin DOMAIN company_profile["links"]
         THEN Outcome(At(d, i, "Charges", T("[No Charges]")), sent, "")
         ELSE LET charges_path == Str(company_profile["links"]["charges"])
                  sent2 == Append(sent, Request("root_url", PageQuery(charges_path)))
                  charges == get_company_charges(chargesResp)
              IN  IF charges.kind = "raise"
                  THEN Outcome(d, sent2, charges.value)
                  ELSE InsolvencyStep(
                           At(d, i, "Charges", ChargesString(charges.value)),
                           i, company_profile, sent2)
    ELSE InsolvencyStep(d, i, company_profile, sent)

(***************************************************************************)
(* Lines 85-107: the directors, each name followed by " | ".               *)
(***************************************************************************)
RECURSIVE DirectorsString(_, _)
DirectorsString(directors, director_index) ==
    IF director_index < Len(directors)
    THEN directors[director_index + 1] \o T(" | ")
         \o DirectorsString(directors, director_index + 1)
    ELSE <<>>

OfficersStep(d, i, company_profile, officersResp, chargesResp, sent) ==
    IF getOfficers
    THEN IF "officers" \notin DOMAIN company_profile["links"]
         THEN Outcome(At(d, i, "Directors", T("[No Directors]")), sent, "")
         ELSE LET officers_path == Str(company_profile["links"]["officers"])
                  sent2 == Append(sent, Request("root_url", PageQuery(officers_path)))
                  directors == get_company_directors(officersResp)
              IN  IF directors.kind = "raise"
                  THEN Outcome(d, sent2, directors.value)
                  ELSE ChargesStep(
                           At(d, i, "Directors", DirectorsString(directors.value, 0)),
                           i, company_profile, chargesResp, sent2)
    ELSE ChargesStep(d, i, company_profile, chargesResp, sent)

(***************************************************************************)
(* Lines 68-82: the address.  address_line_1 is appended as it is, every   *)
(* other component that is present is appended after ", ".                 *)
(***************************************************************************)
Part(roa, key, sep) ==
    IF key \in DOMAIN roa THEN sep \o Str(roa[key]) ELSE <<>>

RegisteredOfficeAddress(roa) ==
    Part(roa, "address_line_1", <<>>)
    \o Part(roa, "address_line_2", T(", "))
    \o Part(roa, "locality", T(", "))
    \o Part(roa, "region", T(", "))
    \o Part(roa, "postal_code", T(", "))
    \o Part(roa, "country", T(", "))

(***************************************************************************)
(* Lines 55-61: the profile is the empty dict; the four fields get         *)
(* "[No Result]" and the loop continues with the next row.                 *)
(***************************************************************************)
\* The branch without its `continue`: the code after it reads the profile.
NoResultFallsThrough(d, i, sent) ==
    LET d1 == At(d, i, "Company Name", T("[No Result]"))
        d2 == At(d1, i, "Jurisdiction", T("[No Result]"))
        d3 == At(d2, i, "Type", T("[No Result]"))
        d4 == At(d3, i, "Registered Office Address", T("[No Result]"))
    IN  Outcome(d4, sent,
                IF getOfficers \/ getCharges \/ getInsolvency THEN "KeyError" ELSE "")

NoResult(d, i, sent) ==
    LET d1 == At(d, i, "Company Name", T("[No Result]"))
        d2 == At(d1, i, "Jurisdiction", T("[No Result]"))
        d3 == At(d2, i, "Type", T("[No Result]"))
        d4 == At(d3, i, "Registered Office Address", T("[No Result]"))
    IN  Outcome(d4, sent, "")

(***************************************************************************)
(* Lines 43-155: one iteration of the loop over the rows, on row i.        *)
(***************************************************************************)
Iteration(d, i, profileResp, officersResp, chargesResp) ==
    LET company_number == Str(d[i]["Company Number"])
    IN  IF company_number = T("nan")
        THEN Outcome(d, <<>>, "")
        ELSE LET sent == << Request("company_url", company_number) >>
                 company_profile == get_company_profile(profileResp).value
             IN  IF company_profile = EmptyDict
                 THEN NoResult(d, i, sent)
                 ELSE LET d1 == At(d, i, "Company Name",
                                   Str(company_profile["company_name"]))
                          d2 == At(d1, i, "Jurisdiction",
                                   Title(Str(company_profile["jurisdiction"])))
                          d3 == At(d2, i, "Type", Upper(Str(company_profile["type"])))
                          d4 == At(d3, i, "Registered Office Address",
                                   RegisteredOfficeAddress(
                                       company_profile["registered_office_address"]))
                      IN  OfficersStep(d4, i, company_profile,
                                       officersResp, chargesResp, sent)

(***************************************************************************)
(* The script: the table is loaded, the loop runs over its rows, the       *)
(* table is saved.  An exception leaves the loop and ends the script.      *)
(***************************************************************************)
\* No client operation observed yet; resp is the answer the registry will
\* give where a specification draws it at the start.
Pending(resp) == [op |-> "none", resp |-> resp, out |-> Return(EmptyDict)]
NoOperation == Pending(NotFound)

\* CompaniesHouseService.__init__, at time 0.
InitClient ==
    /\ last_request_timestamp = None
    /\ clock = 0
    /\ prev_sent = None
    /\ last_sent = None
    /\ last_wait = <<0, 0>>

Init ==
    /\ InitClient
    /\ result = NoOperation
    /\ getOfficers \in BOOLEAN
    /\ getCharges \in BOOLEAN
    /\ getInsolvency \in BOOLEAN
    /\ input \in SeqsUpTo(Identifiers \cup {NaN}, MaxRows)
    /\ df = [i \in 1..Len(input) |-> LoadedRow(input[i])]
    /\ index = 1
    /\ pc = "loop"
    /\ calls = [i \in 1..Len(input) |-> <<>>]
    /\ answered = [i \in 1..Len(input) |-> "not asked"]

\* The answers the registry may give to the request for a sub-resource; a
\* request the iteration cannot send (flag off, profile not found or
\* without the link) needs none, and NotFound stands in.
OfficersAnswers == { NotFound, Ok([items |-> <<>>]), Ok([items |-> ExampleOfficers]) }
ChargesAnswers == { NotFound, Ok([items |-> <<>>]), Ok([items |-> ExampleCharges]) }

Answers(flag, link, profileResp, pages) ==
    IF flag /\ profileResp.status_code = 200 /\ link \in DOMAIN profileResp.body["links"]
    THEN pages ELSE { NotFound }

Answered(sent, profileResp) ==
    IF sent = <<>> THEN "not asked"
    ELSE IF get_company_profile(profileResp).value = EmptyDict THEN "{}"
    ELSE "profile"

\* The iteration on row `index`, the registry answering the profile request
\* with profileResp.
Process(profileResp) ==
    /\ pc = "loop"
    /\ index <= Len(df)
    /\ \E officersResp \in Answers(getOfficers, "officers", profileResp, OfficersAnswers),
          chargesResp \in Answers(getCharges, "charges", profileResp, ChargesAnswers) :
          LET o == Iteration(df, index, profileResp, officersResp, chargesResp)
          IN  /\ df' = o.df
              /\ calls' = [calls EXCEPT ![index] = o.calls]
              /\ answered' = [answered EXCEPT ![index] = Answered(o.calls, profileResp)]
              /\ SetClient(QueryTimes(Client, Len(o.calls)))
              /\ pc' = IF o.raised = "" THEN "loop" ELSE "aborted"
              /\ index' = IF o.raised = "" THEN index + 1 ELSE index
    /\ UNCHANGED <<result, getOfficers, getCharges, getInsolvency, input>>

ProcessRow ==
    /\ index <= Len(df)
    /\ \E profileResp \in ProfilePages(df[index]["Company Number"]) :
          Process(profileResp)

Save ==
    /\ pc = "loop"
    /\ index > Len(df)
    /\ pc' = "done"
    /\ UNCHANGED <<clientVars, result, getOfficers, getCharges, getInsolvency,
                   input, df, index, calls, answered>>

Next == ProcessRow \/ Save

Spec == Init /\ [][Next]_vars

(***************************************************************************)
(* One row, every profile: the table holds one company number, and the     *)
(* answer the registry will give to its profile request is drawn at the    *)
(* start among all profiles (every set of address components, every set    *)
(* of links, every form of has_insolvency_history) and "not found".        *)
(***************************************************************************)
AllProfilePages(company_number) ==
    { NotFound }
    \cup { Ok(Profile(company_number, a, l, h)) :
               a \in SUBSET AddressKeys, l \in SUBSET LinkKeys, h \in InsolvencyValues }

InitRow ==
    /\ InitClient
    /\ result \in { Pending(resp) : resp \in AllProfilePages(T("00445790")) }
    /\ getOfficers \in BOOLEAN
    /\ getCharges \in BOOLEAN
    /\ getInsolvency \in BOOLEAN
    /\ input = << T("00445790") >>
    /\ df = [i \in 1..Len(input) |-> LoadedRow(input[i])]
    /\ index = 1
    /\ pc = "loop"
    /\ calls = [i \in 1..Len(input) |-> <<>>]
    /\ answered = [i \in 1..Len(input) |-> "not asked"]

ProcessPending ==
    /\ result.op = "none"
    /\ Process(result.resp)

NextRow == ProcessPending \/ Save

SpecRow == InitRow /\ [][NextRow]_vars

(***************************************************************************)
(* The same with the flags as the script sets them (lines 13-15):          *)
(* getOfficers and getCharges off, getInsolvency on.                       *)
(***************************************************************************)
InitShipped ==
    /\ InitClient
    /\ result \in { Pending(resp) : resp \in AllProfilePages(T("00445790")) }
    /\ getOfficers = FALSE
    /\ getCharges = FALSE
    /\ getInsolvency = TRUE
    /\ input = << T("00445790") >>
    /\ df = [i \in 1..Len(input) |-> LoadedRow(input[i])]
    /\ index = 1
    /\ pc = "loop"
    /\ calls = [i \in 1..Len(input) |-> <<>>]
    /\ answered = [i \in 1..Len(input) |-> "not asked"]

SpecShipped == InitShipped /\ [][NextRow]_vars

(***************************************************************************)
(* The client on its own: any sequence of its four operations, time        *)
(* passing between them.  The script's variables stay as loaded with an    *)
(* empty table.                                                            *)
(***************************************************************************)
InitIdleScript ==
    /\ getOfficers = FALSE
    /\ getCharges = FALSE
    /\ getInsolvency = TRUE
    /\ input = <<>>
    /\ df = <<>>
    /\ index = 1
    /\ pc = "loop"
    /\ calls = <<>>
    /\ answered = <<>>

InitOnlyClient ==
    /\ InitClient
    /\ result = NoOperation
    /\ InitIdleScript

Tick ==
    /\ clock < MaxClock
    /\ clock' = clock + 1
    /\ UNCHANGED <<last_request_timestamp, prev_sent, last_sent, last_wait,
                   result, batchVars>>

\* A request goes out: _query_ch_api runs the rate limiter and sends it.
Called ==
    /\ clock <= MaxClock
    /\ \E oversleep \in 0..MaxOversleep : SetClient(QueryChApi(Client, oversleep))
    /\ UNCHANGED batchVars

Returned(op, resp, out) == result' = [op |-> op, resp |-> resp, out |-> out]

GetCompanyProfile ==
    \E resp \in ProfilePagesSmall :
        /\ Called
        /\ Returned("get_company_profile", resp, get_company_profile(resp))

GetFirstCompanySearch ==
    \E resp \in SearchPages :
        /\ Called
        /\ Returned("get_first_company_search", resp, get_first_company_search(resp))

GetCompanyDirectors ==
    \E resp \in OfficersPages :
        /\ Called
        /\ Returned("get_company_directors", resp, get_company_directors(resp))

GetCompanyCharges ==
    \E resp \in ChargesPagesSmall :
        /\ Called
        /\ Returned("get_company_charges", resp, get_company_charges(resp))

NextClient ==
    \/ Tick
    \/ GetCompanyProfile
    \/ GetFirstCompanySearch
    \/ GetCompanyDirectors
    \/ GetCompanyCharges

SpecClient == InitOnlyClient /\ [][NextClient]_vars

(***************************************************************************)
(* get_company_charges on every charges page of ChargesPages: the page the *)
(* registry will answer with is drawn at the start, a new client then      *)
(* makes the call.                                                         *)
(***************************************************************************)
InitCharges ==
    /\ InitClient
    /\ result \in { Pending(resp) : resp \in ChargesPages }
    /\ InitIdleScript

ApplyGetCompanyCharges ==
    /\ result.op = "none"
    /\ Called
    /\ Returned("get_company_charges", result.resp, get_company_charges(result.resp))

NextCharges == ApplyGetCompanyCharges

SpecCharges == InitCharges /\ [][NextCharges]_vars

(***************************************************************************)
(*                              Properties                                 *)
(***************************************************************************)

\* C1: the requests of two consecutive client calls are at least
\* time_between_requests apart; a call after the first sleeps
\* max(time_between_requests - elapsed, 0) before its request goes out; and
\* last_request_timestamp is the time the last request went out.
RateLimited ==
    /\ prev_sent /= None =>
          /\ last_sent - prev_sent >= time_between_requests
          /\ last_wait[2] = Max(time_between_requests - last_wait[1], 0)
          /\ last_sent - prev_sent >= last_wait[1] + last_wait[2]
    /\ last_sent /= None => last_request_timestamp = last_sent

\* A second call found part of the interval elapsed and slept the rest.
RateLimitedWitness ==
    /\ prev_sent /= None
    /\ last_wait[1] > 0
    /\ last_wait[2] > 0
    /\ last_sent - prev_sent = time_between_requests

\* C2: whatever the registry answers, no iteration of the loop raises: the
\* loop is never left before the rows after the current one are processed.
BatchNeverAborts == pc /= "aborted"

\* C3: a client operation whose request fails (status other than 200) or
\* whose page has no "items" array returns its default (the empty dict for
\* get_company_profile, None for get_first_company_search, an empty list for
\* get_company_directors and get_company_charges) and does not raise.
Failed(op, resp) ==
    \/ resp.status_code /= 200
    \/ op /= "get_company_profile" /\ "items" \notin DOMAIN resp.body

DefaultOf(op) ==
    CASE op = "get_company_profile" -> EmptyDict
      [] op = "get_first_company_search" -> NoneResult
      [] OTHER -> <<>>

ClientNeverRaises ==
    (result.op /= "none" /\ Failed(result.op, result.resp)) =>
        /\ result.out.kind = "return"
        /\ result.out.value = DefaultOf(result.op)

\* C4: once the loop is past a row whose identifier is blank, no client
\* request was sent for the row and every field the run produces holds its
\* sentinel in that row.
SentinelOf(col) ==
    CASE col = "Directors" -> T("[No Directors]")
      [] col = "Charges" -> T("[No Charges]")
      [] col = "Insolvency" -> T("[No Insolvency Data]")
      [] OTHER -> T("[No Result]")

ProducedColumns ==
    {"Company Name", "Jurisdiction", "Type", "Registered Office Address"}
    \cup (IF getOfficers THEN {"Directors"} ELSE {})
    \cup (IF getCharges THEN {"Charges"} ELSE {})
    \cup (IF getInsolvency THEN {"Insolvency"} ELSE {})

BlankRowIsSentinel ==
    \A i \in 1..Len(input) :
        (input[i] = NaN /\ index > i) =>
            /\ calls[i] = <<>>
            /\ \A col \in ProducedColumns : df[i][col] = SentinelOf(col)

\* C5: for a profile that was found, the Registered Office Address is the
\* components present, in the order address_line_1, address_line_2,
\* locality, region, postal_code, country, joined by ", ".
AddressOrder ==
    <<"address_line_1", "address_line_2", "locality", "region", "postal_code", "country">>

RECURSIVE PresentComponents(_, _)
PresentComponents(roa, keys) ==
    IF keys = <<>> THEN <<>>
    ELSE (IF Head(keys) \in DOMAIN roa THEN << roa[Head(keys)] >> ELSE <<>>)
         \o PresentComponents(roa, Tail(keys))

RECURSIVE Join(_, _)
Join(texts, sep) ==
    IF texts = <<>> THEN <<>>
    ELSE IF Len(texts) = 1 THEN texts[1]
    ELSE texts[1] \o sep \o Join(Tail(texts), sep)

RowDone == index > 1 \/ pc = "aborted"

AddressIsJoined ==
    (RowDone /\ answered[1] = "profile") =>
        df[1]["Registered Office Address"]
            = Join(PresentComponents(result.resp.body["registered_office_address"],
                                     AddressOrder), T(", "))

\* C6: for a profile that was found and a row whose iteration ended without
\* raising, the Charges field is produced whenever getCharges is on (the
\* sentinel "[No Charges]" when links has no 'charges') and the Insolvency
\* field whenever getInsolvency is on, whatever getOfficers and the links.
StepsAreIndependent ==
    (index > 1 /\ answered[1] = "profile") =>
        /\ getCharges =>
              /\ df[1]["Charges"] /= NaN
              /\ "charges" \notin DOMAIN result.resp.body["links"] =>
                     df[1]["Charges"] = T("[No Charges]")
        /\ getInsolvency => df[1]["Insolvency"] /= NaN

\* C7: with getInsolvency on, for a profile that was found and a row whose
\* iteration ended without raising, the Insolvency field is the profile's
\* has_insolvency_history when it has one and "[No Insolvency Data]" when
\* it has none.
InsolvencyIsSurfaced ==
    (index > 1 /\ answered[1] = "profile" /\ getInsolvency) =>
        IF "has_insolvency_history" \in DOMAIN result.resp.body
        THEN df[1]["Insolvency"] = result.resp.body["has_insolvency_history"]["text"]
        ELSE df[1]["Insolvency"] = T("[No Insolvency Data]")

\* C8: a row for which get_company_profile returned the empty dict has
\* "[No Result]" in Company Name, Jurisdiction, Type and Registered Office
\* Address, its iteration sent the profile request and no other, and the
\* loop has moved on to the rows after it.
EmptyProfileRow ==
    \A i \in 1..Len(df) :
        answered[i] = "{}" =>
            /\ \A col \in {"Company Name", "Jurisdiction", "Type",
                           "Registered Office Address"} :
                   df[i][col] = T("[No Result]")
            /\ calls[i] = << Request("company_url", Str(input[i])) >>
            /\ index > i

\* The profile of the first row was not found and the second row was
\* processed after it, its profile found.
EmptyProfileRowWitness ==
    /\ Len(df) >= 2
    /\ answered[1] = "{}"
    /\ answered[2] = "profile"
    /\ index > 2

\* C9: for a charges page with an "items" array, get_company_charges returns
\* one entry per charge whose status is not 'fully-satisfied', in the order
\* of the page, and none for a 'fully-satisfied' charge.
RECURSIVE Unsatisfied(_)
Unsatisfied(charges_list) ==
    IF charges_list = <<>> THEN <<>>
    ELSE (IF Head(charges_list)["status"] = "fully-satisfied" THEN <<>>
          ELSE << Head(charges_list) >>)
         \o Unsatisfied(Tail(charges_list))

ChargesAreFiltered ==
    (/\ result.op = "get_company_charges"
     /\ result.resp.status_code = 200
     /\ "items" \in DOMAIN result.resp.body) =>
        LET kept == Unsatisfied(result.resp.body["items"])
            out == result.out
        IN  /\ out.kind = "return"
            /\ Len(out.value) = Len(kept)
            /\ \A k \in 1..Len(kept) :
                   /\ out.value[k] = ChargeRow(kept[k])
                   /\ out.value[k][4] /= T("Status: ") \o T("fully-satisfied")

\* The page [fully-satisfied, outstanding, part-satisfied] gave two entries,
\* outstanding then part-satisfied.
ChargesAreFilteredWitness ==
    /\ result.op = "get_company_charges"
    /\ result.resp = Ok([items |-> ExampleCharges])
    /\ Len(result.out.value) = 2
    /\ result.out.value[1][4] = T("Status: ") \o T("outstanding")
    /\ result.out.value[2][4] = T("Status: ") \o T("part-satisfied")

\* C10: the table always has one row per input identifier and row i holds
\* the Company Number of input i; so it does when the loop has ended.
RowsArePreserved ==
    /\ Len(df) = Len(input)
    /\ \A i \in 1..Len(input) : df[i]["Company Number"] = input[i]

\* The loop ended on a table of two different identifiers, both processed.
RowsArePreservedWitness ==
    /\ pc = "done"
    /\ Len(input) >= 2
    /\ input[1] /= input[2]
    /\ answered[1] /= "not asked"
    /\ answered[2] /= "not asked"

====
